---------------------------- MODULE Spec2Model ----------------------------
(***************************************************************************)
(* Model of the PC player of air-guitar-pro (component PCPlayer, whose     *)
(* source is the TypeScript listing in src/README.md, lines 370-895).      *)
(*                                                                         *)
(* One PCPlayer instance is modelled from mount to unmount.  gameLoop is   *)
(* an async function with a single suspension point (await                 *)
(* model.estimateHands, README.md:661), so a tick is two atomic steps:     *)
(* TickBegin (README.md:603-661) and TickEnd (README.md:661-785).          *)
(* Date.now() is the variable clock; it advances at the points where the   *)
(* code lets time pass (the animation-frame wait before a tick and the     *)
(* await inside it).                                                       *)
(*                                                                         *)
(* The fret store is written by ws.onmessage (README.md:484-526), an       *)
(* async handler that suspends only while a Blob frame is read; it is      *)
(* modelled with the JSON values it takes apart.  Spec is the player       *)
(* while no frame arrives, FretSpec the player with its socket, LinkSpec   *)
(* the player whose socket fails, AudioSpec the player heard, ShapeSpec    *)
(* the socket alone and HandSpec the hand selection alone.                 *)
(*                                                                         *)
(* MobileSpec is the mobile client, the GuitarScreen component of          *)
(* src/unnamed/part_001, with its socket and its chord buttons.  PairSpec  *)
(* is the two ends together: what the mobile client sends is delivered to  *)
(* the player's handler, bare or in a relay envelope.  WrapSpec is the     *)
(* handler given one message bare and in its envelope.  LiveSpec is the    *)
(* started player under fair scheduling of its ticks.  AppSpec is the App  *)
(* component with its Lobby (src/air-guitar-pro/App.tsx, Lobby.tsx).       *)
(*                                                                         *)
(* Numbers are exact: JavaScript doubles are modelled as the rationals     *)
(* they approximate, and the dimensions below are chosen so that every     *)
(* product and quotient the code computes is an integer.  Drawing code     *)
(* (canvas, particles, React display state) and the random chord label of  *)
(* a note are not modelled: nothing reads them back.                       *)
(***************************************************************************)
EXTENDS Integers, Sequences, FiniteSets

\* ------------------------------------------------------------------------
\* Program constants
\* ------------------------------------------------------------------------
NOTE_SPEED == 16
STRUM_VELOCITY_THRESHOLD == 18
HIT_WINDOW == 120
HIT_ZONE_OFFSET == 250
DEBOUNCE_MS == 150
SPAWN_INTERVAL == 1100
SPAWN_X == -100
RETIRE_MARGIN == 200
PERFECT_SCORE == 1000
GREAT_SCORE == 500
STRUM_ZONE_OFFSET == 650
STRUM_ZONE_W == 600

\* ------------------------------------------------------------------------
\* Bounds of the model
\* ------------------------------------------------------------------------
\* Date.now() when the component mounts (any value above every interval).
StartTime == 1200
\* Date.now() never exceeds StartTime + MaxElapsed in the model.
MaxElapsed == 1500

\* Milliseconds that can pass while the next animation frame is awaited.
FrameDeltas == {50, 1150}
\* Milliseconds that can pass while estimateHands is awaited.
EstimateDeltas == {50}

\* window.innerWidth / innerHeight at mount, and the sizes the window can
\* be resized to.
\* h is a multiple of 20 so that 0.65 h, 0.3 h and 0.45 h are integers.
\* The windows are narrow so that a note crosses the hit window within a
\* few ticks of being spawned: at w = 166 a note is on the hit line after
\* its first advance and past the window after its ninth, at w = 70 it is
\* past the window after its third.  The judging arithmetic only depends
\* on the difference between a note's x and the hit line.
InitialDims == [w |-> 166, h |-> 200]
WindowDims == {InitialDims, [w |-> 70, h |-> 200]}
\* The window is resized at most MaxResizes times during a session.
MaxResizes == 1
\* videoWidth / videoHeight of the camera stream.
Video == [w |-> 100, h |-> 100]

\* Hands the estimator can report: wrist (wx, wy) is landmarks[0], tip is
\* the mean of landmarks[8], [12], [16] y, all in video coordinates.
\* With h = 200 the strum zone is 130 < y < 190 and its midline is 160,
\* i.e. tips 65..95 with the midline at tip 80.
InZoneHands == { [wx |-> 80, wy |-> 70, tip |-> t] : t \in {72, 80, 90} }
OutOfZoneHand == [wx |-> 80, wy |-> 70, tip |-> 60]
GatedHand == [wx |-> 40, wy |-> 30, tip |-> 90]
Hands == InZoneHands \cup {OutOfZoneHand, GatedHand}

\* Results of estimateHands: no hand, one hand, or a second hand detected
\* together with an in-zone hand.
Predictions ==
    {<< >>} \cup { << h >> : h \in Hands }
            \cup { << GatedHand, OutOfZoneHand >>,
                   << OutOfZoneHand, [wx |-> 80, wy |-> 70, tip |-> 90] >> }

Null == << >>
Some(v) == << v >>
Val(o) == o[1]

Abs(n) == IF n < 0 THEN -n ELSE n

VARIABLES
    clock,              \* Date.now()
    dims,               \* dimsRef.current
    resizes,            \* number of resize events so far
    mounted,            \* the component is mounted
    isReady,            \* init() has finished
    pc,                 \* position of gameLoop
    loopDims,           \* currentDims captured by the running tick
    isAudioStarted,     \* isAudioStartedRef.current
    gameStartTime,      \* gameStartTimeRef.current
    notes,              \* notesRef.current
    nextNoteId,         \* nextNoteId.current
    lastNoteSpawnTime,  \* lastNoteSpawnTime.current
    score,              \* scoreRef.current
    combo,              \* comboRef.current
    perfectCount,       \* perfectCountRef.current
    greatCount,         \* greatCountRef.current
    missCount,          \* missCountRef.current
    lastY,              \* lastYRef.current
    lastStrumTime,      \* lastStrumTimeRef.current
    vel,                \* const vel of the last tick, when it was computed
    inZone,             \* the hand of the last tick was inside STRUM_ZONE
    didStrum,           \* let didStrum of the last finished tick
    strumDir,           \* let strumDir of the last finished tick
    judged,             \* hit / miss side effects of the last finished tick
    maxCombo,           \* ScoreData.max_combo as the player holds it
    lastTick,           \* now, elapsed time and note advance of the last finished tick
    strummed,           \* argument of playStrum in the last finished tick
    summaries,          \* calls of submitScore / submitPlayHistory so far
    fretStates,         \* fretStatesRef.current
    currentChord,       \* currentChordRef.current
    reading,            \* onmessage calls suspended at await event.data.text()
    received,           \* last frame received whose handler writes the store
    handled,            \* frame of the last onmessage call that finished
    ws,                 \* state of the socket wsRef.current
    isConnected,        \* the isConnected state of the component
    closedAt,           \* history: clock when onclose was called
    handsIn,            \* a result of estimateHands given to the selection
    handOut,            \* what the selection made of handsIn
    innerIn,            \* a message and a store given to the handler twice
    wrapOut,            \* the stores after the message bare and wrapped
    camera,             \* state of the tracks of the getUserMedia stream
    pendingFrames,      \* gameLoop calls scheduled and not yet begun
    audio,              \* calls made on audioRef.current by the last tick
    screenMounted,      \* mobile: GuitarScreen is mounted
    selectedChord,      \* mobile: the selectedChord state
    mobileConnected,    \* mobile: the isConnected state
    readyState,         \* mobile: wsRef.current.readyState
    mobileFretStates,   \* mobile: fretStatesRef.current
    sockets,            \* mobile: number of new WebSocket(...) calls so far
    reconnectTimer,     \* mobile: the timeout set by ws.onclose
    sent,               \* mobile: messages given to ws.send, oldest first
    relayed,            \* number of messages of sent the player has received
    role,               \* App: useState<AppRole>
    roomId,             \* App: useState<string>
    location,           \* window.location: room and r parameters, hash
    appPc,              \* App: "closed", "rendered" (effect pending), "ready"
    selections,         \* calls of onSelect made by the Lobby, oldest first
    alerts              \* number of alert('Invalid Room ID')

vars == << clock, dims, resizes, mounted, isReady, pc, loopDims, isAudioStarted,
           gameStartTime, notes, nextNoteId, lastNoteSpawnTime, score, combo,
           perfectCount, greatCount, missCount, lastY, lastStrumTime,
           vel, inZone, didStrum, strumDir, judged, maxCombo, lastTick,
           strummed, summaries, fretStates, currentChord, reading, received,
           handled, ws, isConnected, closedAt,
           handsIn, handOut, innerIn, wrapOut, camera, pendingFrames, audio,
           screenMounted,
           selectedChord, mobileConnected, readyState, mobileFretStates,
           sockets, reconnectTimer, sent, relayed,
           role, roomId, location, appPc, selections, alerts >>

\* ------------------------------------------------------------------------
\* Per-tick derived constants (README.md:609-619)
\* ------------------------------------------------------------------------
HIT_ZONE_X(d) == d.w - HIT_ZONE_OFFSET
STRUM_ZONE(d) == [x |-> d.w - STRUM_ZONE_OFFSET,
                  y |-> (d.h * 65) \div 100,
                  w |-> STRUM_ZONE_W,
                  h |-> (d.h * 30) \div 100]
STRUM_MID_Y(d) == STRUM_ZONE(d).y + (STRUM_ZONE(d).h \div 2)

\* ------------------------------------------------------------------------
\* Position signal (README.md:666-684)
\* ------------------------------------------------------------------------
\* wristY = landmarks[0][1] * vScale > CANVAS_H * 0.45, multiplied through
\* by 100 * videoHeight.
PassesGate(p, d) == p.wy * d.h * 100 > d.h * 45 * Video.h

validHands(predictions, d) ==
    SelectSeq(predictions, LAMBDA p : PassesGate(p, d))

\* validHands.reduce((prev, curr) => prev.wx < curr.wx ? prev : curr)
RECURSIVE ReduceHands(_, _, _)
ReduceHands(prev, hs, i) ==
    IF i > Len(hs) THEN prev
    ELSE ReduceHands(IF prev.wx < hs[i].wx THEN prev ELSE hs[i], hs, i + 1)

SelectHand(hs) == ReduceHands(hs[1], hs, 2)

\* avgTipY = mean tip y * vScale
AvgTipY(hand, d) == (hand.tip * d.h) \div Video.h

\* displayHandX = CANVAS_W - wx * hScale lies strictly inside the zone in x
\* (both sides multiplied by videoWidth) and avgTipY strictly inside in y.
InStrumZone(hand, d) ==
    LET zone  == STRUM_ZONE(d)
        dispX == d.w * Video.w - hand.wx * d.w
        y     == AvgTipY(hand, d)
    IN  /\ dispX > zone.x * Video.w
        /\ dispX < (zone.x + zone.w) * Video.w
        /\ y > zone.y
        /\ y < zone.y + zone.h

\* ------------------------------------------------------------------------
\* Strum detection (README.md:686-710)
\* ------------------------------------------------------------------------
\* Mutant: a previous sample on the midline counts as a crossing too.
Crossed_Symmetric(last, y, mid) ==
    \/ (last <= mid /\ y >= mid)
    \/ (last >= mid /\ y <= mid)

Crossed(last, y, mid) ==
    \/ (last < mid /\ y >= mid)
    \/ (last > mid /\ y <= mid)

FastEnough(speed) == speed > STRUM_VELOCITY_THRESHOLD

\* Mutant: no debounce.
DebounceOk_Always(t, lastTime) == TRUE

DebounceOk(t, lastTime) == t - lastTime > DEBOUNCE_MS

StrumDirection(v) == IF v > 0 THEN "down" ELSE "up"

\* Mutant: the sample is kept only when a strum fires.
LastYAfter_OnStrum(y, fire, prevY) == IF fire THEN Some(y) ELSE prevY

\* lastYRef.current = avgTipY closes the in-zone branch, outside the tests
\* for a previous sample, a crossing, the speed and the debounce
\* (README.md:706).
LastYAfter(y, fire, prevY) == Some(y)

\* Result of the detection block for one frame.
Detect(predictions, d, t, prevY, prevStrum) ==
    LET valid == validHands(predictions, d)
        none  == [vel |-> Null, inZone |-> FALSE,
                  didStrum |-> FALSE,
                  strumDir |-> "down", lastY |-> prevY,
                  lastStrumTime |-> prevStrum]
    IN  IF Len(predictions) = 0 \/ Len(valid) = 0 THEN none
        ELSE
          LET hand == SelectHand(valid)
              y    == AvgTipY(hand, d)
          IN  IF ~InStrumZone(hand, d)
              THEN [none EXCEPT !.lastY = Null]
              ELSE
                LET v    == y - Val(prevY)
                    fire == /\ prevY # Null
                            /\ Crossed(Val(prevY), y, STRUM_MID_Y(d))
                            /\ FastEnough(Abs(v))
                            /\ DebounceOk(t, prevStrum)
                IN  [vel |-> IF prevY # Null THEN Some(v) ELSE Null,
                     inZone |-> TRUE, didStrum |-> fire,
                     strumDir |-> IF fire THEN StrumDirection(v) ELSE "down",
                     lastY |-> LastYAfter(y, fire, prevY),
                     lastStrumTime |-> IF fire THEN t ELSE prevStrum]

\* ------------------------------------------------------------------------
\* Note judging (README.md:714-770)
\* ------------------------------------------------------------------------
\* Mutant: the missed flag is not consulted.
Pending_IgnoresMissed(note) == ~note.hit

Pending(note) == ~note.hit /\ ~note.missed

\* Mutant: the distance check is dropped.
InHitWindow_Always(dist) == TRUE

InHitWindow(dist) == dist < HIT_WINDOW

\* Mutant: the divisor is 2.
IsPerfect_HalfWindow(dist) == dist * 2 < HIT_WINDOW

\* dist < HIT_WINDOW / 3.5, multiplied through by 35
IsPerfect(dist) == dist * 35 < HIT_WINDOW * 10

\* Mutant: a Great is subtracted.
ScoreGain_GreatPenalty(isPerfect) ==
    IF isPerfect THEN PERFECT_SCORE ELSE 0 - GREAT_SCORE

\* Mutant: every hit scores as a Perfect.
ScoreGain_Flat(isPerfect) == PERFECT_SCORE

ScoreGain(isPerfect) == IF isPerfect THEN PERFECT_SCORE ELSE GREAT_SCORE

ComboAfterHit(c) == c + 1

\* Mutant: a miss leaves the combo alone.
ComboAfterMiss_Keeps(c) == c

ComboAfterMiss(c) == 0

\* Mutant: the window is left out of the comparison.
PastWindow_AtHitLine(x, hz) == x > hz

PastWindow(x, hz) == x > hz + HIT_WINDOW

\* Mutant: notes are retired at the hit line.
Retained_BeforeHitLine(n, d) == n.x < HIT_ZONE_X(d) /\ ~n.hit

Retained(n, d) == n.x < d.w + RETIRE_MARGIN /\ ~n.hit

\* Mutant: notes do not move.
Advanced_Still(x) == x

\* note.x += NOTE_SPEED
Advanced(x) == x + NOTE_SPEED

\* Body of the for loop for notes[i].
JudgeNote(acc, i, strum, hz) ==
    LET note == acc.notes[i] IN
    IF ~Pending(note) THEN acc
    ELSE
      LET x1    == Advanced(note.x)
          dist  == Abs(x1 - hz)
          isHit == strum /\ InHitWindow(dist)
          perf  == IsPerfect(dist)
          a1    == IF isHit
                   THEN [acc EXCEPT
                           !.notes[i] = [note EXCEPT !.x = x1, !.hit = TRUE],
                           !.score = @ + ScoreGain(perf),
                           !.combo = ComboAfterHit(@),
                           !.perfectCount = IF perf THEN @ + 1 ELSE @,
                           !.greatCount = IF perf THEN @ ELSE @ + 1,
                           !.judged = Append(@, [kind |-> "hit", id |-> note.id,
                                                 dist |-> dist, perfect |-> perf])]
                   ELSE [acc EXCEPT !.notes[i] = [note EXCEPT !.x = x1]]
      IN  IF PastWindow(x1, hz)
          THEN [a1 EXCEPT
                  !.notes[i] = [@ EXCEPT !.missed = TRUE],
                  !.combo = ComboAfterMiss(@),
                  !.missCount = @ + 1,
                  !.judged = Append(@, [kind |-> "miss", id |-> note.id,
                                        dist |-> dist, perfect |-> FALSE])]
          ELSE a1

\* for (let i = notes.length - 1; i >= 0; i--)
RECURSIVE JudgeFrom(_, _, _, _)
JudgeFrom(acc, i, strum, hz) ==
    IF i = 0 THEN acc
    ELSE JudgeFrom(JudgeNote(acc, i, strum, hz), i - 1, strum, hz)

\* The entries of a tick's log at which playStrum was called.
HitsIn(log) == SelectSeq(log, LAMBDA e : e.kind = "hit")

\* Mutant: a miss is silent.
AudioOf_MissSilent(e, frets, dir) ==
    IF e.kind = "hit"
    THEN << [call |-> "playStrum", frets |-> frets, dir |-> dir] >>
    ELSE << >>

\* The call on audioRef.current in the branch that logged e: playStrum with
\* the array in fretStatesRef.current and the direction of the strum for a
\* hit (README.md:740), playMuted for a miss (README.md:756).  audioRef is
\* set when the component mounts (README.md:471-473).
AudioOf(e, frets, dir) ==
    IF e.kind = "hit"
    THEN << [call |-> "playStrum", frets |-> frets, dir |-> dir] >>
    ELSE << [call |-> "playMuted", frets |-> << >>, dir |-> ""] >>

RECURSIVE AudioCalls(_, _, _)
AudioCalls(log, frets, dir) ==
    IF log = << >> THEN << >>
    ELSE AudioOf(Head(log), frets, dir) \o AudioCalls(Tail(log), frets, dir)

Judge(strum, d) ==
    JudgeFrom([notes |-> notes, score |-> score, combo |-> combo,
               perfectCount |-> perfectCount, greatCount |-> greatCount,
               missCount |-> missCount, judged |-> << >>],
              Len(notes), strum, HIT_ZONE_X(d))

\* ------------------------------------------------------------------------
\* Fret store: ws.onmessage (README.md:484-526)
\* ------------------------------------------------------------------------
\* fretStatesRef.current is an array indexed from 0; a slot holds null
\* (Null), or a number f (Some(f)): -1 for a muted string, a fret otherwise.
EmptyFretStates == [i \in 0..5 |-> Null]

\* JSON values as JSON.parse returns them.  A property that is missing
\* from an object reads as undefined (JAbsent); type "undefined" and chord
\* "" stand for a missing type and a missing or empty chord.
JAbsent == [k |-> "absent"]
JNull == [k |-> "null"]
JNumber == [k |-> "number"]
JString == [k |-> "string"]
JList(items) == [k |-> "list", items |-> items]
Entry(string, fret) == [k |-> "object", string |-> string, fret |-> fret]
JObject(type, chord, fingering, payload) ==
    [k |-> "object", type |-> type, chord |-> chord,
     fingering |-> fingering, payload |-> payload]
\* A frame whose text is not JSON.
Unparseable == [k |-> "unparseable"]

\* if (v): undefined and null are falsy; the numbers and strings of the
\* model are non-zero and non-empty.
Truthy(v) == v.k \notin {"absent", "null"}
\* v.type, for a v that is neither null nor undefined
TypeOf(v) == IF v.k = "object" /\ "type" \in DOMAIN v THEN v.type
             ELSE "undefined"

\* Mutant: strings are counted from the lowest slot.
StringIndex_FromOne(string) == string - 1

\* const stringIndex = 6 - string
StringIndex(string) == 6 - string

\* payload.fingering.forEach(...) on the local array frets, from entry i.
\* Destructuring null throws; an entry without a string property gives
\* 6 - undefined = NaN, which fails both comparisons.
RECURSIVE ForEachEntry(_, _, _)
ForEachEntry(frets, items, i) ==
    IF i > Len(items) THEN [threw |-> FALSE, frets |-> frets]
    ELSE
      LET item == items[i] IN
      IF item.k \in {"null", "absent"} THEN [threw |-> TRUE, frets |-> frets]
      ELSE IF item.k = "object" /\ "string" \in DOMAIN item
      THEN LET stringIndex == StringIndex(item.string) IN
           ForEachEntry(IF stringIndex >= 0 /\ stringIndex < 6
                        THEN [frets EXCEPT ![stringIndex] = Some(item.fret)]
                        ELSE frets,
                        items, i + 1)
      ELSE ForEachEntry(frets, items, i + 1)

\* payload.chord || 'C'
ChordLabel(chord) == IF chord = "" THEN "C" ELSE chord

\* The chord_change branch, with the local array starting as base.  A
\* fingering that is truthy and not an array has no forEach: the call
\* throws before anything is stored.
ChordChangeFrom(base, payload, st) ==
    LET fingering == payload.fingering
        stored(frets) == [fretStates |-> frets,
                          currentChord |-> ChordLabel(payload.chord)]
    IN  IF ~Truthy(fingering) THEN stored(base)
        ELSE IF fingering.k # "list" THEN st
        ELSE LET r == ForEachEntry(base, fingering.items, 1)
             IN  IF r.threw THEN st ELSE stored(r.frets)

\* Mutant: the local array starts as the stored one.
ChordChange_Merge(payload, st) == ChordChangeFrom(st.fretStates, payload, st)

\* README.md:495-510
ChordChange(payload, st) == ChordChangeFrom(EmptyFretStates, payload, st)

\* Mutant: -1 is stored as it is.
FretOf_Keep(v) == Some(v)

\* v => v === -1 ? null : v
FretOf(v) == IF v = -1 THEN Null ELSE Some(v)

\* README.md:517-522.  payload.payload.map throws when payload.payload is
\* undefined or has no map.
FretUpdate(payload, st) ==
    LET fretPayload == payload.payload IN
    IF fretPayload.k # "list" THEN st
    ELSE [st EXCEPT !.fretStates =
             [i \in 0..(Len(fretPayload.items) - 1) |->
                 FretOf(fretPayload.items[i + 1])]]

\* Mutant: the envelope is not opened.
Unwrap_Never(data) == data

\* const payload = data.type === 'data' ? data.payload : data
Unwrap(data) == IF TypeOf(data) = "data" THEN data.payload ELSE data

\* ws.onmessage from JSON.parse(text) to its end, on the store st; every
\* throw is caught at README.md:523 and leaves st as it was.
OnMessageText(text, st) ==
    IF text.k = "unparseable" THEN st
    ELSE
      LET data == text IN
      IF data.k = "null" THEN st
      ELSE
        LET payload == Unwrap(data)
        IN  IF payload.k \in {"null", "absent"} THEN st
            ELSE IF TypeOf(payload) = "chord_change"
                 THEN ChordChange(payload, st)
            ELSE IF TypeOf(payload) = "FRET_UPDATE"
                 THEN FretUpdate(payload, st)
            ELSE st

\* Frames the socket delivers.
ChordG ==
    JObject("chord_change", "G",
            JList(<< Entry(6, 3), Entry(5, 2), Entry(1, 3) >>), JAbsent)
ChordD ==
    JObject("chord_change", "D",
            JList(<< Entry(6, -1), Entry(5, -1), Entry(3, 2), Entry(7, 1),
                     Entry(0, 1), Entry(3, 0) >>), JAbsent)
\* sendData of the mobile side wraps a message as {type: "data", payload}
Wrapped(message) == JObject("data", "", JAbsent, message)
Legacy ==
    JObject("FRET_UPDATE", "", JAbsent, JList(<< 0, -1, 2, -1, 3, 1 >>))
StringsPressed == JObject("strings_pressed", "", JAbsent, JAbsent)
UnknownType == JObject("ping", "", JAbsent, JAbsent)
NoType == JObject("undefined", "", JAbsent, JAbsent)
WrappedNothing == JObject("data", "", JAbsent, JAbsent)
ChordNotList == JObject("chord_change", "Am", JString, JAbsent)
ChordNullEntry ==
    JObject("chord_change", "F", JList(<< Entry(6, 1), JNull >>), JAbsent)
\* GuitarScreen.sendChordChange sends {type, chord, frets, timestamp}
ChordNoFingering == JObject("chord_change", "Em", JAbsent, JAbsent)
ChordNumberEntries == JObject("chord_change", "A", JList(<< JNumber >>), JAbsent)
FretNoPayload == JObject("FRET_UPDATE", "", JAbsent, JAbsent)
FretNotList == JObject("FRET_UPDATE", "", JAbsent, JNumber)

WellFormed == { ChordG, Wrapped(ChordD), Legacy, StringsPressed }
Malformed == { Unparseable, JNull, UnknownType, NoType, WrappedNothing,
               ChordNotList, ChordNullEntry, ChordNoFingering,
               ChordNumberEntries, FretNoPayload, FretNotList }
\* Frames that arrive as a Blob.
BlobTexts == { ChordG, Legacy }
Frames == [blob : {FALSE}, text : WellFormed \cup Malformed]
              \cup [blob : {TRUE}, text : BlobTexts]
\* At most MaxReading handlers are suspended at a time.
MaxReading == 1

\* The handler of this frame assigns fretStatesRef.current.
Untouched == [fretStates |-> << >>, currentChord |-> ""]
WritesStore(text) == OnMessageText(text, Untouched).fretStates # << >>

\* ------------------------------------------------------------------------
\* Initial state: the component has just mounted (README.md:398-434)
\* ------------------------------------------------------------------------
Init ==
    /\ clock = StartTime
    /\ dims = InitialDims
    /\ resizes = 0
    /\ mounted = TRUE
    /\ isReady = FALSE
    /\ pc = "init"
    /\ loopDims = dims
    /\ isAudioStarted = FALSE
    /\ gameStartTime = Null
    /\ notes = << >>
    /\ nextNoteId = 0
    /\ lastNoteSpawnTime = 0
    /\ score = 0
    /\ combo = 0
    /\ perfectCount = 0
    /\ greatCount = 0
    /\ missCount = 0
    /\ lastY = Null
    /\ lastStrumTime = 0
    /\ vel = Null
    /\ inZone = FALSE
    /\ didStrum = FALSE
    /\ strumDir = "down"
    /\ judged = << >>
    /\ maxCombo = 0
    /\ lastTick = Null
    /\ strummed = Null
    /\ summaries = 0
    /\ fretStates = EmptyFretStates
    /\ currentChord = "C"
    /\ reading = << >>
    /\ received = Null
    /\ handled = Null
    /\ ws = "connecting"
    /\ isConnected = FALSE
    /\ closedAt = Null
    /\ handsIn = << >>
    /\ handOut = Null
    /\ innerIn = Null
    /\ wrapOut = Null
    /\ screenMounted = TRUE
    /\ selectedChord = "C (osanai)"
    /\ mobileConnected = FALSE
    /\ readyState = "CONNECTING"
    /\ mobileFretStates = [i \in 1..6 |-> Some(-1)]
    /\ sockets = 1
    /\ reconnectTimer = "none"
    /\ sent = << >>
    /\ relayed = 0
    /\ camera = "none"
    /\ pendingFrames = 0
    /\ audio = << >>
    /\ role = "LOBBY"
    /\ roomId = << >>
    /\ location = [room |-> Null, r |-> Null, hash |-> << >>]
    /\ appPc = "closed"
    /\ selections = << >>
    /\ alerts = 0

scoreVars == << score, combo, perfectCount, greatCount, missCount >>
strumVars == << lastY, lastStrumTime, vel, inZone, didStrum, strumDir >>
noteVars  == << notes, nextNoteId, lastNoteSpawnTime >>
socketVars == << fretStates, currentChord, reading, received, handled >>
linkVars == << ws, isConnected, closedAt >>
probeVars == << handsIn, handOut, innerIn, wrapOut >>
mobileVars == << screenMounted, selectedChord, mobileConnected, readyState,
                mobileFretStates, sockets, reconnectTimer, sent, relayed >>
appVars == << role, roomId, location, appPc, selections, alerts >>
playerVars == << clock, dims, resizes, mounted, isReady, pc, loopDims,
                isAudioStarted, gameStartTime, noteVars, scoreVars, strumVars,
                judged, maxCombo, lastTick, strummed, summaries, probeVars,
                camera, linkVars, pendingFrames, audio, socketVars >>

\* ------------------------------------------------------------------------
\* Actions
\* ------------------------------------------------------------------------
\* init() resolves: the video plays and gameLoop is first called.
InitDone ==
    /\ mounted /\ pc = "init"
    /\ pc' = "idle"
    /\ isReady' = TRUE
    /\ camera' = "live"
    /\ pendingFrames' = 1
    /\ UNCHANGED << clock, dims, resizes, mounted, loopDims, isAudioStarted,
                    gameStartTime, noteVars, scoreVars, strumVars, judged, maxCombo,
                    lastTick, strummed, summaries, probeVars, mobileVars, appVars, audio,
                    linkVars, socketVars >>

\* init resolves after the unmount: getUserMedia has returned a live
\* stream, videoRef.current is null, so the stream is not attached to the
\* video element and gameLoop is never called (README.md:548-555).
InitDoneUnmounted ==
    /\ ~mounted /\ ~isReady /\ camera = "none"
    /\ camera' = "live"
    /\ UNCHANGED << clock, dims, resizes, mounted, isReady, pc, loopDims,
                    isAudioStarted, gameStartTime, noteVars, scoreVars,
                    strumVars, judged, maxCombo, lastTick, strummed,
                    summaries, probeVars, mobileVars, appVars, audio, linkVars, pendingFrames, socketVars >>

\* window resize listener
HandleResize ==
    /\ mounted
    /\ resizes < MaxResizes
    /\ resizes' = resizes + 1
    /\ \E nd \in WindowDims \ {dims} : dims' = nd
    /\ UNCHANGED << clock, mounted, isReady, pc, loopDims, isAudioStarted,
                    gameStartTime, noteVars, scoreVars, strumVars, judged, maxCombo,
                    lastTick, strummed, summaries, probeVars, mobileVars, appVars, audio,
                    camera, linkVars, pendingFrames, socketVars >>

\* GIG START button
HandleStart ==
    /\ mounted /\ isReady /\ ~isAudioStarted
    /\ isAudioStarted' = TRUE
    /\ gameStartTime' = Some(clock)
    /\ UNCHANGED << clock, dims, resizes, mounted, isReady, pc, loopDims,
                    noteVars, scoreVars, strumVars, judged, maxCombo,
                    lastTick, strummed, summaries, probeVars, mobileVars, appVars, audio,
                    camera, linkVars, pendingFrames, socketVars >>

\* Mutant: notes are spawned whether or not the session has started.
SpawnAllowed_Always(started) == TRUE

\* if (isAudioStartedRef.current) spawnNote()
SpawnAllowed(started) == started

\* Mutant: the interval is not consulted.
SpawnDue_Always(t) == TRUE

\* spawnNote() at time t
SpawnDue(t) == t - lastNoteSpawnTime > SPAWN_INTERVAL

\* What a tick that reads Date.now() as t leaves about itself: t, the time
\* since the previous tick read it, and the distance by which it moved the
\* Pending notes (none when no note was Pending).
AdvanceOf(before, after) ==
    IF \E i \in 1..Len(before) : Pending(before[i])
    THEN LET i == CHOOSE j \in 1..Len(before) : Pending(before[j])
         IN  Some(after[i].x - before[i].x)
    ELSE Null

TickRecord(t, advance) ==
    Some([now |-> t,
          elapsed |-> IF lastTick = Null THEN Null
                      ELSE Some(t - Val(lastTick).now),
          advance |-> advance])

\* A scheduled animation frame calls gameLoop once and is consumed by the
\* call; the next one is requested at the end of the tick (README.md:785).
FramesAfterBegin_Reschedule(n) == n
FramesAfterBegin(n) == n - 1

\* gameLoop from its entry to the await of estimateHands
TickBeginAfter(deltas) ==
    /\ mounted /\ pc = "idle" /\ pendingFrames > 0
    /\ \E dt \in deltas :
         /\ clock + dt <= StartTime + MaxElapsed
         /\ clock' = clock + dt
         /\ IF SpawnAllowed(isAudioStarted) /\ SpawnDue(clock + dt)
            THEN /\ notes' = Append(notes, [id |-> nextNoteId, x |-> SPAWN_X,
                                            hit |-> FALSE, missed |-> FALSE])
                 /\ nextNoteId' = nextNoteId + 1
                 /\ lastNoteSpawnTime' = clock + dt
            ELSE UNCHANGED noteVars
    /\ loopDims' = dims
    /\ pc' = "awaiting"
    /\ pendingFrames' = FramesAfterBegin(pendingFrames)
    /\ UNCHANGED << dims, resizes, mounted, isReady, isAudioStarted, gameStartTime,
                    scoreVars, strumVars, judged, maxCombo,
                    lastTick, strummed, summaries, probeVars, mobileVars, appVars, audio,
                    camera, linkVars, socketVars >>

TickBegin == TickBeginAfter(FrameDeltas)

\* gameLoop from the resumption after estimateHands to requestAnimationFrame
\* (no statement of gameLoop assigns a maximum combo)
TickEndAfter(deltas) ==
    /\ mounted /\ pc = "awaiting"
    /\ \E dt \in deltas, predictions \in Predictions :
         /\ clock + dt <= StartTime + MaxElapsed
         /\ clock' = clock + dt
         /\ \E det \in {Detect(predictions, loopDims, clock + dt, lastY,
                                lastStrumTime)} :
            \E res \in {Judge(det.didStrum, loopDims)} :
                /\ vel' = det.vel
                /\ inZone' = det.inZone
                /\ didStrum' = det.didStrum
                /\ strumDir' = det.strumDir
                /\ lastY' = det.lastY
                /\ lastStrumTime' = det.lastStrumTime
                /\ notes' = SelectSeq(res.notes,
                                      LAMBDA n : Retained(n, loopDims))
                /\ score' = res.score
                /\ combo' = res.combo
                /\ perfectCount' = res.perfectCount
                /\ greatCount' = res.greatCount
                /\ missCount' = res.missCount
                /\ judged' = res.judged
                /\ strummed' = IF HitsIn(res.judged) # << >>
                                THEN Some(fretStates) ELSE Null
                /\ audio' = AudioCalls(res.judged, fretStates, det.strumDir)
                /\ lastTick' = TickRecord(clock + dt,
                                          AdvanceOf(notes, res.notes))
    /\ pc' = "idle"
    /\ pendingFrames' = pendingFrames + 1
    /\ UNCHANGED << dims, resizes, mounted, isReady, loopDims, isAudioStarted,
                    gameStartTime, nextNoteId, lastNoteSpawnTime, maxCombo,
                    summaries, probeVars, mobileVars, appVars,
                    camera, linkVars, socketVars >>

TickEnd == TickEndAfter(EstimateDeltas)

\* The same resumption after the component has unmounted: videoRef.current
\* is null.  With a detected hand, reading videoRef.current.videoWidth
\* (README.md:667) throws and gameLoop ends before judging; with no hand the
\* notes are judged without a strum and the next gameLoop call returns at
\* its entry check (README.md:604).
TickEndUnmounted ==
    /\ ~mounted /\ pc = "awaiting"
    /\ \E dt \in EstimateDeltas, predictions \in Predictions :
         /\ clock + dt <= StartTime + MaxElapsed
         /\ clock' = clock + dt
         /\ IF Len(predictions) > 0
            THEN /\ judged' = << >>
                 /\ audio' = << >>
                 /\ lastTick' = TickRecord(clock + dt, Null)
                 /\ UNCHANGED << notes, scoreVars >>
            ELSE \E res \in {Judge(FALSE, loopDims)} :
                 /\ lastTick' = TickRecord(clock + dt,
                                           AdvanceOf(notes, res.notes))
                 /\ notes' = SelectSeq(res.notes,
                                       LAMBDA n : Retained(n, loopDims))
                 /\ score' = res.score
                 /\ combo' = res.combo
                 /\ perfectCount' = res.perfectCount
                 /\ greatCount' = res.greatCount
                 /\ missCount' = res.missCount
                 /\ judged' = res.judged
                 /\ audio' = AudioCalls(res.judged, fretStates, "down")
    /\ strummed' = Null
    /\ vel' = Null
    /\ inZone' = FALSE
    /\ didStrum' = FALSE
    /\ strumDir' = "down"
    /\ pc' = "stopped"
    /\ UNCHANGED << dims, resizes, mounted, isReady, loopDims, isAudioStarted,
                    gameStartTime, nextNoteId, lastNoteSpawnTime, lastY,
                    lastStrumTime, maxCombo, summaries, probeVars, mobileVars, appVars,
                    camera, linkVars, pendingFrames, socketVars >>

\* Abort button: onExit() unmounts the component; the effect cleanup
\* cancels the scheduled animation frame (README.md:790-795).  A tick
\* suspended at the await resumes later.
\* handleExit calls nothing else: neither BackendService.submitScore nor
\* submitPlayHistory is called, here or anywhere in the player.
HandleExit ==
    /\ mounted
    /\ mounted' = FALSE
    /\ pc' = IF pc = "awaiting" THEN "awaiting" ELSE "stopped"
    /\ ws' = "closed"
    /\ pendingFrames' = 0
    /\ UNCHANGED << clock, dims, resizes, isReady, loopDims, isAudioStarted,
                    gameStartTime, noteVars, scoreVars, strumVars, judged, maxCombo,
                    lastTick, strummed, summaries, probeVars, mobileVars, appVars, audio,
                    camera, isConnected, closedAt, socketVars >>

\* ws.onopen (README.md:479-482)
OnOpen ==
    /\ ws = "connecting"
    /\ ws' = "open"
    /\ isConnected' = TRUE
    /\ UNCHANGED closedAt
    /\ UNCHANGED << clock, dims, resizes, mounted, isReady, pc, loopDims,
                    isAudioStarted, gameStartTime, noteVars, scoreVars,
                    strumVars, judged, maxCombo, lastTick, strummed,
                    summaries, probeVars, mobileVars, appVars, audio, camera, pendingFrames, socketVars >>

\* What ws.onerror and ws.onclose do to the fret store: they log and call
\* setIsConnected(false), nothing else (README.md:528-536).
StoreAfterClose_Reset(st) ==
    [fretStates |-> EmptyFretStates, currentChord |-> "C"]
StoreAfterClose(st) == st

\* ws.onerror (README.md:528-531): the open socket reports an error; its
\* close event follows.
OnError ==
    /\ mounted /\ ws = "open" /\ isConnected
    /\ isConnected' = FALSE
    /\ \E st \in {StoreAfterClose([fretStates |-> fretStates,
                                   currentChord |-> currentChord])} :
         /\ fretStates' = st.fretStates
         /\ currentChord' = st.currentChord
    /\ UNCHANGED << clock, dims, resizes, mounted, isReady, pc, loopDims,
                    isAudioStarted, gameStartTime, noteVars, scoreVars,
                    strumVars, judged, maxCombo, lastTick, strummed,
                    summaries, probeVars, mobileVars, appVars, audio, camera, pendingFrames, ws, closedAt, reading,
                    received, handled >>

\* ws.onclose (README.md:533-536): the server or the network has closed the
\* socket.  No frame arrives afterwards.
OnClose ==
    /\ mounted /\ ws # "closed"
    /\ ws' = "closed"
    /\ isConnected' = FALSE
    /\ closedAt' = Some(clock)
    /\ \E st \in {StoreAfterClose([fretStates |-> fretStates,
                                   currentChord |-> currentChord])} :
         /\ fretStates' = st.fretStates
         /\ currentChord' = st.currentChord
    /\ UNCHANGED << clock, dims, resizes, mounted, isReady, pc, loopDims,
                    isAudioStarted, gameStartTime, noteVars, scoreVars,
                    strumVars, judged, maxCombo, lastTick, strummed,
                    summaries, probeVars, mobileVars, appVars, audio, camera, pendingFrames, reading, received,
                    handled >>

\* ws.onmessage is called with a frame.  A text frame is handled at once;
\* for a Blob the handler is suspended at await event.data.text()
\* (README.md:487).  The cleanup closes the socket (README.md:792), so no
\* frame arrives after the unmount.
OnMessageFrom(frames) ==
    /\ ws = "open"
    /\ \E frame \in frames :
         /\ received' = IF WritesStore(frame.text) THEN Some(frame.text)
                        ELSE received
         /\ IF frame.blob
            THEN /\ Len(reading) < MaxReading
                 /\ reading' = Append(reading, frame.text)
                 /\ UNCHANGED << fretStates, currentChord, handled >>
            ELSE \E st \in {OnMessageText(frame.text,
                                [fretStates |-> fretStates,
                                 currentChord |-> currentChord])} :
                 /\ fretStates' = st.fretStates
                 /\ currentChord' = st.currentChord
                 /\ handled' = Some(frame.text)
                 /\ UNCHANGED reading
    /\ UNCHANGED << clock, dims, resizes, mounted, isReady, pc, loopDims,
                    isAudioStarted, gameStartTime, noteVars, scoreVars,
                    strumVars, judged, maxCombo, lastTick, strummed,
                    summaries, probeVars, mobileVars, appVars, audio,
                    camera, linkVars, pendingFrames >>

OnMessage == OnMessageFrom(Frames)

\* event.data.text() of the oldest suspended handler resolves and the
\* handler runs to its end (the reads of successive Blobs finish in the
\* order they were started).
BlobTextResolved ==
    /\ reading # << >>
    /\ \E st \in {OnMessageText(Head(reading),
                      [fretStates |-> fretStates,
                       currentChord |-> currentChord])} :
         /\ fretStates' = st.fretStates
         /\ currentChord' = st.currentChord
    /\ handled' = Some(Head(reading))
    /\ reading' = Tail(reading)
    /\ UNCHANGED << clock, dims, resizes, mounted, isReady, pc, loopDims,
                    isAudioStarted, gameStartTime, noteVars, scoreVars,
                    strumVars, judged, maxCombo, lastTick, strummed,
                    summaries, probeVars, mobileVars, appVars, audio,
                    camera, linkVars, pendingFrames, received >>

Next ==
    \/ InitDone
    \/ InitDoneUnmounted
    \/ HandleResize
    \/ HandleStart
    \/ TickBegin
    \/ TickEnd
    \/ TickEndUnmounted
    \/ HandleExit

Spec == Init /\ [][Next]_vars

\* ------------------------------------------------------------------------
\* The player with its socket.  Spec above is the player while no frame
\* arrives; FretSpec is the player receiving frames during the first
\* FretElapsed milliseconds after the mount, in a window that keeps its
\* size.
\* ------------------------------------------------------------------------
FretElapsed == 200

FretTickBegin == TickBegin /\ clock' <= StartTime + FretElapsed
FretTickEnd == TickEnd /\ clock' <= StartTime + FretElapsed
FretTickEndUnmounted == TickEndUnmounted /\ clock' <= StartTime + FretElapsed

FretNext ==
    \/ InitDone
    \/ OnOpen
    \/ HandleStart
    \/ FretTickBegin
    \/ FretTickEnd
    \/ FretTickEndUnmounted
    \/ HandleExit
    \/ OnMessage
    \/ BlobTextResolved

FretSpec == Init /\ [][FretNext]_vars

\* ------------------------------------------------------------------------
\* Hand selection on its own: gameLoop from the filter to the reduce
\* (README.md:670-676) applied to results of estimateHands of up to
\* MaxHands hands, in the initial window.
\* ------------------------------------------------------------------------
MaxHands == 3

\* Two hands that pass the gate with the same wrist x and different tips, one
\* further left in the video, and two that do not pass the gate.
ProbeHands ==
    { [wx |-> 80, wy |-> 70, tip |-> 80], [wx |-> 80, wy |-> 70, tip |-> 90],
      [wx |-> 30, wy |-> 70, tip |-> 80], GatedHand,
      [wx |-> 20, wy |-> 40, tip |-> 80] }

RECURSIVE SeqsUpTo(_, _)
SeqsUpTo(S, n) ==
    IF n = 0 THEN {<< >>}
    ELSE LET shorter == SeqsUpTo(S, n - 1)
         IN  shorter \cup { Append(q, h) : q \in shorter, h \in S }

\* displayHandX = CANVAS_W - wx * hScale (README.md:679), multiplied by
\* videoWidth: the display mirrors the video.
DisplayHandX(hand, d) == d.w * Video.w - hand.wx * d.w

\* README.md:670-676: the hand the frame's position is taken from, if any.
HandOf(predictions, d) ==
    LET valid == validHands(predictions, d)
    IN  IF Len(valid) > 0 THEN Some(SelectHand(valid)) ELSE Null

EstimateResolved ==
    /\ handsIn = << >> /\ handOut = Null
    /\ handsIn' \in SeqsUpTo(ProbeHands, MaxHands) \ {<< >>}
    /\ UNCHANGED << clock, dims, resizes, mounted, isReady, pc, loopDims,
                    isAudioStarted, gameStartTime, noteVars, scoreVars,
                    strumVars, judged, maxCombo, lastTick, strummed,
                    summaries, handOut, innerIn, wrapOut, mobileVars, appVars, audio,
                    camera, linkVars, pendingFrames, socketVars >>

HandSelected ==
    /\ handsIn # << >> /\ handOut = Null
    /\ handOut' = Some(HandOf(handsIn, dims))
    /\ UNCHANGED << clock, dims, resizes, mounted, isReady, pc, loopDims,
                    isAudioStarted, gameStartTime, noteVars, scoreVars,
                    strumVars, judged, maxCombo, lastTick, strummed,
                    summaries, handsIn, innerIn, wrapOut, mobileVars, appVars, audio,
                    camera, linkVars, pendingFrames, socketVars >>

HandNext ==
    \/ EstimateResolved
    \/ HandSelected

HandSpec == Init /\ [][HandNext]_vars

\* ------------------------------------------------------------------------
\* The mobile client: GuitarScreen (src/unnamed/part_001).  Its initial
\* state is the one after the mount effect has run: one socket has been
\* created and is connecting (part_001:24-26).
\* ------------------------------------------------------------------------
\* CHORDS (part_001:6-15), frets as Null for null and Some(n) for a number.
\* The names written in Japanese are transliterated: "C (osanai)",
\* "G (kaihougen)", and "kaihougen" for the chord of sendOpenStrings.
Frets(a, b, c, d, e, f) == << a, b, c, d, e, f >>
Open == Some(-1)
CHORDS ==
    [name \in {"C", "C (osanai)", "D", "G", "G (kaihougen)", "Em", "Am", "F"} |->
       CASE name = "C"  -> Frets(Null, Null, Null, Null, Null, Null)
         [] name = "C (osanai)" -> Frets(Open, Open, Open, Open, Open, Open)
         [] name = "D"  -> Frets(Null, Open, Some(0), Some(0), Null, Null)
         [] name = "G"  -> Frets(Some(2), Null, Null, Some(0), Some(0), Null)
         [] name = "G (kaihougen)" -> Frets(Open, Open, Open, Open, Open, Open)
         [] name = "Em" -> Frets(Some(0), Some(2), Some(2), Some(0), Null, Null)
         [] name = "Am" -> Frets(Null, Some(0), Some(2), Some(2), Some(1), Null)
         [] name = "F"  -> Frets(Null, Null, Null, Some(2), Null, Null)]

\* The message of sendChordChange and sendOpenStrings, without its timestamp.
ChordMessage(chordName, frets) ==
    [type |-> "chord_change", chord |-> chordName, frets |-> frets]

\* The messages sent are counted up to MaxSent.
MaxSent == 2

\* ws.onopen (part_001:28-31)
MobileOnOpen ==
    /\ readyState = "CONNECTING"
    /\ readyState' = "OPEN"
    /\ mobileConnected' = TRUE
    /\ UNCHANGED << screenMounted, selectedChord, mobileFretStates, sockets,
                    reconnectTimer, sent, relayed, playerVars, appVars >>

\* ws.onerror (part_001:37-40) on the open socket
MobileOnError ==
    /\ readyState = "OPEN" /\ mobileConnected
    /\ mobileConnected' = FALSE
    /\ UNCHANGED << screenMounted, selectedChord, readyState,
                    mobileFretStates, sockets, reconnectTimer, sent,
                    relayed, playerVars, appVars >>

\* What the timeout of ws.onclose does to the number of sockets created: it
\* logs and creates none (part_001:46-48).
SocketsAfterTimeout(n) == n

\* ws.onclose (part_001:42-49): the socket has closed, by the server, by the
\* network or by the cleanup's ws.close(); a timeout of 5 seconds is set.
MobileOnClose ==
    /\ readyState # "CLOSED"
    /\ readyState' = "CLOSED"
    /\ mobileConnected' = FALSE
    /\ reconnectTimer' = "pending"
    /\ UNCHANGED << screenMounted, selectedChord, mobileFretStates, sockets,
                    sent, relayed, playerVars, appVars >>

\* The timeout set by ws.onclose fires (part_001:46-48).
ReconnectTimeout ==
    /\ reconnectTimer = "pending"
    /\ reconnectTimer' = "fired"
    /\ sockets' = SocketsAfterTimeout(sockets)
    /\ UNCHANGED << screenMounted, selectedChord, mobileConnected, readyState,
                    mobileFretStates, sent, relayed, playerVars, appVars >>

\* sendChordChange (part_001:57-73) on the state [frets, sent].
SendChordChange(chordName, frets, st) ==
    IF readyState # "OPEN" THEN st
    ELSE [frets |-> frets,
          sent  |-> Append(st.sent, ChordMessage(chordName, frets))]

\* onPress of a chord button (part_001:126-131)
PressChord ==
    /\ screenMounted
    /\ Len(sent) < MaxSent
    /\ \E name \in DOMAIN CHORDS :
         /\ selectedChord' = name
         /\ \E st \in {SendChordChange(name, CHORDS[name],
                            [frets |-> mobileFretStates, sent |-> sent])} :
              /\ mobileFretStates' = st.frets
              /\ sent' = st.sent
    /\ UNCHANGED << screenMounted, mobileConnected, readyState, sockets,
                    reconnectTimer, relayed, playerVars, appVars >>

\* sendOpenStrings (part_001:76-86)
SendOpenStrings ==
    /\ screenMounted
    /\ Len(sent) < MaxSent
    /\ readyState = "OPEN"
    /\ sent' = Append(sent, ChordMessage("kaihougen",
                                         Frets(Open, Open, Open, Open, Open, Open)))
    /\ UNCHANGED << screenMounted, selectedChord, mobileConnected, readyState,
                    mobileFretStates, sockets, reconnectTimer, relayed, playerVars, appVars >>

\* The screen unmounts: the effect cleanup calls ws.close() (part_001:51-53).
ScreenUnmount ==
    /\ screenMounted
    /\ screenMounted' = FALSE
    /\ readyState' = IF readyState = "CLOSED" THEN "CLOSED" ELSE "CLOSING"
    /\ UNCHANGED << selectedChord, mobileConnected, mobileFretStates, sockets,
                    reconnectTimer, sent, relayed, playerVars, appVars >>

MobileNext ==
    \/ MobileOnOpen
    \/ MobileOnError
    \/ MobileOnClose
    \/ ReconnectTimeout
    \/ PressChord
    \/ SendOpenStrings
    \/ ScreenUnmount

MobileSpec == Init /\ [][MobileNext]_vars

\* ------------------------------------------------------------------------
\* The player heard: the first AudioElapsed milliseconds of a session in a
\* window that may shrink, with two chords arriving as text frames, long
\* enough for a note to be hit and for a note to be missed.
\* ------------------------------------------------------------------------
AudioElapsed == 400

AudioTickBegin == TickBegin /\ clock' <= StartTime + AudioElapsed
AudioTickEnd == TickEnd /\ clock' <= StartTime + AudioElapsed
AudioOnMessage ==
    /\ OnMessage
    /\ pc = "awaiting"
    /\ handled' \in {Some(ChordG), Some(Legacy)} /\ reading' = reading

AudioNext ==
    \/ InitDone
    \/ OnOpen
    \/ HandleResize
    \/ HandleStart
    \/ AudioTickBegin
    \/ AudioTickEnd
    \/ AudioOnMessage

AudioSpec == Init /\ [][AudioNext]_vars

\* ------------------------------------------------------------------------
\* The socket on its own, delivering fret messages whose arrays and fret
\* numbers are not those of a six-string fingering.
\* ------------------------------------------------------------------------
FretShort == JObject("FRET_UPDATE", "", JAbsent, JList(<< 2, -2 >>))
FretLong ==
    JObject("FRET_UPDATE", "", JAbsent, JList(<< 0, 1, 2, 3, 4, 5, 6 >>))
ChordBelow == JObject("chord_change", "E", JList(<< Entry(6, -2) >>), JAbsent)

ShapeFrames ==
    [blob : {FALSE},
     text : {ChordG, Wrapped(ChordD), Legacy, FretShort, FretLong, ChordBelow}]
        \cup [blob : {TRUE}, text : {ChordG, FretShort, ChordBelow}]

ShapeOnMessage == OnMessageFrom(ShapeFrames)

ShapeNext ==
    \/ OnOpen
    \/ ShapeOnMessage
    \/ BlobTextResolved

ShapeSpec == Init /\ [][ShapeNext]_vars

\* ------------------------------------------------------------------------
\* The mobile client and the player together: what the client gives to
\* ws.send reaches ws.onmessage of the player, in order, as the same JSON
\* text or wrapped as {type: "data", payload} (README.md:491-492).
\* ------------------------------------------------------------------------
\* JSON.parse(JSON.stringify(message)) of a message of the mobile client:
\* an object with the properties type, chord and frets and neither
\* fingering nor payload (part_001:63-68, 71).
Parsed(message) ==
    LET \* an element of the frets array: null or a number
        JFret(v) == IF v = Null THEN JNull ELSE [k |-> "number", v |-> v[1]]
    IN  [k |-> "object", type |-> message.type, chord |-> message.chord,
         fingering |-> JAbsent, payload |-> JAbsent,
         frets |-> JList([i \in 1..Len(message.frets) |->
                              JFret(message.frets[i])])]

Deliver ==
    /\ ws = "open"
    /\ relayed < Len(sent)
    /\ relayed' = relayed + 1
    /\ \E text \in {Parsed(sent[relayed + 1]),
                     Wrapped(Parsed(sent[relayed + 1]))} :
         /\ \E st \in {OnMessageText(text, [fretStates |-> fretStates,
                                            currentChord |-> currentChord])} :
              /\ fretStates' = st.fretStates
              /\ currentChord' = st.currentChord
         /\ handled' = Some(text)
         /\ received' = IF WritesStore(text) THEN Some(text) ELSE received
    /\ UNCHANGED << clock, dims, resizes, mounted, isReady, pc, loopDims,
                    isAudioStarted, gameStartTime, noteVars, scoreVars,
                    strumVars, judged, maxCombo, lastTick, strummed,
                    summaries, probeVars, audio, camera, linkVars,
                    pendingFrames, reading, screenMounted, selectedChord,
                    mobileConnected, readyState, mobileFretStates, sockets,
                    reconnectTimer, sent, appVars >>

PairNext ==
    \/ MobileOnOpen
    \/ PressChord
    \/ SendOpenStrings
    \/ OnOpen
    \/ Deliver

PairSpec == Init /\ [][PairNext]_vars

\* ------------------------------------------------------------------------
\* The handler on its own: ws.onmessage applied to a message as it is and
\* to the same message inside {type: "data", payload}, from the same store.
\* ------------------------------------------------------------------------
\* A message and a store are chosen.  The messages are the JSON values of
\* the frames above (a text that is not JSON is no message that can be
\* wrapped); the stores are the initial one and those that the chords G and
\* D and the legacy update leave.
MessageChosen ==
    /\ innerIn = Null
    /\ LET InnerMessages ==
               ((WellFormed \cup Malformed) \ {Unparseable})
                   \cup {FretShort, FretLong, ChordBelow}
           StoresBefore ==
               { [fretStates |-> EmptyFretStates, currentChord |-> "C"],
                 OnMessageText(ChordG, Untouched),
                 OnMessageText(ChordD, Untouched),
                 [fretStates |-> OnMessageText(Legacy, Untouched).fretStates,
                  currentChord |-> "D"] }
       IN  innerIn' \in { Some([m |-> m, st |-> st]) :
                              m \in InnerMessages, st \in StoresBefore }
    /\ UNCHANGED << clock, dims, resizes, mounted, isReady, pc, loopDims,
                    isAudioStarted, gameStartTime, noteVars, scoreVars,
                    strumVars, judged, maxCombo, lastTick, strummed,
                    summaries, handsIn, handOut, wrapOut, mobileVars, appVars, audio,
                    camera, linkVars, pendingFrames, socketVars >>

MessageHandled ==
    /\ innerIn # Null /\ wrapOut = Null
    /\ wrapOut' = Some([direct  |-> OnMessageText(innerIn[1].m, innerIn[1].st),
                        wrapped |-> OnMessageText(Wrapped(innerIn[1].m),
                                                  innerIn[1].st)])
    /\ UNCHANGED << clock, dims, resizes, mounted, isReady, pc, loopDims,
                    isAudioStarted, gameStartTime, noteVars, scoreVars,
                    strumVars, judged, maxCombo, lastTick, strummed,
                    summaries, handsIn, handOut, innerIn, mobileVars, appVars, audio,
                    camera, linkVars, pendingFrames, socketVars >>

WrapNext ==
    \/ MessageChosen
    \/ MessageHandled

WrapSpec == Init /\ [][WrapNext]_vars

\* ------------------------------------------------------------------------
\* The player that goes on ticking in a window that keeps its size.  The
\* clock of the model stops LiveElapsed milliseconds after the mount: the
\* ticks after that read the same Date.now(), which the handling of the
\* notes in the active set does not depend on (README.md:716-770), so they
\* can go on for ever in finitely many states.  The browser calls every
\* animation frame requested and estimateHands resolves, hence the weak
\* fairness of the two halves of a tick; init finishes.
\* ------------------------------------------------------------------------
LiveElapsed == 300

ClockStopped ==
    \A dt \in FrameDeltas \cup EstimateDeltas :
        clock + dt > StartTime + LiveElapsed

LiveTickBegin ==
    \/ TickBegin /\ clock' <= StartTime + LiveElapsed
    \/ ClockStopped /\ TickBeginAfter({0})

LiveTickEnd ==
    \/ TickEnd /\ clock' <= StartTime + LiveElapsed
    \/ ClockStopped /\ TickEndAfter({0})

LiveNext ==
    \/ InitDone
    \/ HandleStart
    \/ LiveTickBegin
    \/ LiveTickEnd

LiveSpec ==
    /\ Init /\ [][LiveNext]_vars
    /\ WF_vars(InitDone)
    /\ WF_vars(LiveTickBegin)
    /\ WF_vars(LiveTickEnd)

\* ------------------------------------------------------------------------
\* The player whose socket fails: the same window of time, with the error
\* and close events of the socket and without the exit.
\* ------------------------------------------------------------------------
\* The frames of this player are the well-formed ones.
LinkOnMessage ==
    /\ OnMessage
    /\ \/ Len(reading') > Len(reading)
       \/ handled' \in {Some(m) : m \in WellFormed}

LinkNext ==
    \/ InitDone
    \/ OnOpen
    \/ HandleStart
    \/ FretTickBegin
    \/ FretTickEnd
    \/ LinkOnMessage
    \/ BlobTextResolved
    \/ OnError
    \/ OnClose

LinkSpec == Init /\ [][LinkNext]_vars

\* ------------------------------------------------------------------------
\* Vocabulary of the properties
\* ------------------------------------------------------------------------
\* A step in which a suspended tick resumes and runs to its end.
JudgeStep == pc = "awaiting" /\ pc' # "awaiting"
\* The same, for a tick of the mounted component.
MountedTick == mounted /\ pc = "awaiting" /\ pc' = "idle"

HitsOf(log) == SelectSeq(log, LAMBDA e : e.kind = "hit")
MissesOf(log) == SelectSeq(log, LAMBDA e : e.kind = "miss")
PerfectsOf(log) == SelectSeq(log, LAMBDA e : e.kind = "hit" /\ e.perfect)
GreatsOf(log) == SelectSeq(log, LAMBDA e : e.kind = "hit" /\ ~e.perfect)

Unresolved(n) == ~n.hit /\ ~n.missed
DistanceTo(x, d) == Abs(x - (d.w - 250))

\* combo after the resolutions of log, applied in order to combo c
RECURSIVE ComboReplay(_, _)
ComboReplay(log, c) ==
    IF log = << >> THEN c
    ELSE ComboReplay(Tail(log), IF Head(log).kind = "hit" THEN c + 1 ELSE 0)

\* ------------------------------------------------------------------------
\* C1.  A strum resolves at most one note: after a tick with a strum at
\* most one note was hit, it was nearer to the hit line than every note
\* left Pending (ties: lower id), and no Pending note is left inside the
\* hit window unless one note was hit.
\* ------------------------------------------------------------------------
C1_StrumResolvesOnlyNearest ==
    (pc = "idle" /\ didStrum) =>
        LET hits == HitsOf(judged) IN
        /\ Len(hits) <= 1
        /\ \A j \in 1..Len(notes) :
              (Unresolved(notes[j]) /\ DistanceTo(notes[j].x, loopDims) < 120)
                 => /\ Len(hits) = 1
                    /\ \/ hits[1].dist < DistanceTo(notes[j].x, loopDims)
                       \/ /\ hits[1].dist = DistanceTo(notes[j].x, loopDims)
                          /\ hits[1].id < notes[j].id

\* ------------------------------------------------------------------------
\* C2.  A note is resolved at most once: every resolution of a tick is of
\* a note that was Pending before it, no note is resolved twice or both
\* ways in a tick, a note already Missed is never altered again, and the
\* score and the counters move only by the resolutions of the tick.
\* ------------------------------------------------------------------------
C2_Step ==
    /\ \A i \in 1..Len(notes) :
          ~Unresolved(notes[i]) =>
              \A j \in 1..Len(notes') :
                  notes'[j].id = notes[i].id => notes'[j] = notes[i]
    /\ \A j \in 1..Len(notes') : ~(notes'[j].hit /\ notes'[j].missed)
    /\ JudgeStep =>
          /\ \A k \in 1..Len(judged') :
                /\ \E i \in 1..Len(notes) :
                      notes[i].id = judged'[k].id /\ Unresolved(notes[i])
                /\ \A m \in 1..Len(judged') :
                      judged'[m].id = judged'[k].id => m = k
          /\ score' - score = 1000 * Len(PerfectsOf(judged'))
                               + 500 * Len(GreatsOf(judged'))
          /\ perfectCount' - perfectCount = Len(PerfectsOf(judged'))
          /\ greatCount' - greatCount = Len(GreatsOf(judged'))
          /\ missCount' - missCount = Len(MissesOf(judged'))
    /\ ~JudgeStep => UNCHANGED << score, combo, perfectCount, greatCount,
                                  missCount >>

C2_NoteResolvesOnce == [][C2_Step]_vars

\* A Missed note is still in the active set while a later tick has run.
C2_Witness ==
    /\ pc = "idle"
    /\ judged = << >>
    /\ \E i \in 1..Len(notes) : notes[i].missed

\* ------------------------------------------------------------------------
\* C3.  combo starts at 0, is never negative, and a step changes it only
\* by the resolutions of the tick, in their order: +1 for a Hit, 0 for a
\* Missed.
\* ------------------------------------------------------------------------
C3_ComboCountsHitsSinceMiss ==
    /\ combo = 0
    /\ [](combo >= 0)
    /\ [][combo' = IF JudgeStep THEN ComboReplay(judged', combo)
                   ELSE combo]_vars

\* One hit since the one miss: the combo was reset and counts again.
C3_Witness == combo = 1 /\ missCount = 1

\* ------------------------------------------------------------------------
\* C4.  maxCombo is tracked: it is never below combo.
\* ------------------------------------------------------------------------
C4_MaxComboAtLeastCombo == maxCombo >= combo

\* ------------------------------------------------------------------------
\* C5.  Every hit of a tick is of a note at distance d < HIT_WINDOW from
\* the hit line after its advance; it is rated Perfect iff 3.5 d <
\* HIT_WINDOW; the tick adds 1000 to score and 1 to perfectCount per
\* Perfect, 500 and 1 to greatCount per Great; a strummed note on the hit
\* line is hit as Perfect.
\* ------------------------------------------------------------------------
C5_Step ==
    MountedTick =>
        /\ \A k \in 1..Len(judged') :
              judged'[k].kind = "hit" =>
                 /\ didStrum'
                 /\ \E i \in 1..Len(notes) :
                       /\ notes[i].id = judged'[k].id
                       /\ judged'[k].dist = DistanceTo(notes[i].x + 16, loopDims)
                 /\ judged'[k].dist < 120
                 /\ judged'[k].perfect <=> (judged'[k].dist * 35 < 1200)
        /\ score' = score + 1000 * Len(PerfectsOf(judged'))
                          + 500 * Len(GreatsOf(judged'))
        /\ perfectCount' = perfectCount + Len(PerfectsOf(judged'))
        /\ greatCount' = greatCount + Len(GreatsOf(judged'))
        /\ \A i \in 1..Len(notes) :
              (didStrum' /\ Unresolved(notes[i])
                        /\ DistanceTo(notes[i].x + 16, loopDims) = 0)
                 => \E k \in 1..Len(judged') :
                       /\ judged'[k].kind = "hit"
                       /\ judged'[k].id = notes[i].id
                       /\ judged'[k].perfect

C5_RatingAndScore == [][C5_Step]_vars

\* The first note of a session was strummed on the hit line.
C5_Witness ==
    /\ pc = "idle"
    /\ judged = << [kind |-> "hit", id |-> 0, dist |-> 0, perfect |-> TRUE] >>
    /\ score = 1000
    /\ combo = 1

\* ------------------------------------------------------------------------
\* C6.  In every tick, strum or not, exactly the Pending notes that are
\* beyond HIT_ZONE_X + HIT_WINDOW after the advance become Missed;
\* missCount grows by their number, combo is 0 after a tick with a miss,
\* and a tick without a strum leaves score alone.
\* ------------------------------------------------------------------------
C6_Step ==
    MountedTick =>
        LET past == { i \in 1..Len(notes) :
                        /\ Unresolved(notes[i])
                        /\ notes[i].x + 16 > (loopDims.w - 250) + 120 }
        IN  /\ \A i \in past :
                  /\ \E k \in 1..Len(judged') :
                        judged'[k].kind = "miss" /\ judged'[k].id = notes[i].id
                  /\ \E j \in 1..Len(notes') :
                        notes'[j].id = notes[i].id /\ notes'[j].missed
            /\ Len(MissesOf(judged')) = Cardinality(past)
            /\ missCount' = missCount + Cardinality(past)
            /\ past # {} => combo' = 0
            /\ ~didStrum' => score' = score

C6_PastWindowIsMissed == [][C6_Step]_vars

\* The only miss so far came after a hit and reset the combo.
C6_Witness ==
    /\ pc = "idle"
    /\ Len(MissesOf(judged)) = 1
    /\ missCount = 1
    /\ perfectCount + greatCount >= 1
    /\ combo = 0

C8_Step ==
    ( /\ MountedTick
      /\ didStrum'
      /\ \A i \in 1..Len(notes) :
            Unresolved(notes[i])
               => DistanceTo(notes[i].x + 16, loopDims) >= 120 )
    =>  /\ HitsOf(judged') = << >>
        /\ score' = score
        /\ perfectCount' = perfectCount
        /\ greatCount' = greatCount
        /\ combo' = IF MissesOf(judged') = << >> THEN combo ELSE 0
        /\ missCount' = missCount + Len(MissesOf(judged'))
        /\ \A i \in 1..Len(notes) :
              /\ Unresolved(notes[i]) =>
                    \E j \in 1..Len(notes') :
                       /\ notes'[j].id = notes[i].id
                       /\ ~notes'[j].hit
                       /\ notes'[j].missed =
                             (notes[i].x + 16 > (loopDims.w - 250) + 120)
              /\ ~Unresolved(notes[i]) =>
                    \A j \in 1..Len(notes') :
                       notes'[j].id = notes[i].id => notes'[j] = notes[i]

C8_WhiffHasNoEffect == [][C8_Step]_vars

\* A strum in the tick in which the only Pending note left the window.
C8_Witness ==
    /\ pc = "idle"
    /\ didStrum
    /\ Len(judged) = 1
    /\ judged[1].kind = "miss"

\* ------------------------------------------------------------------------
\* C9.  A strum is accepted only more than DEBOUNCE_MS after the previous
\* accepted one; lastStrumTime becomes the time of an accepted strum and
\* is changed by nothing else, a rejected candidate included.
\* ------------------------------------------------------------------------
C9_Step ==
    IF MountedTick /\ didStrum'
    THEN /\ clock' - lastStrumTime > 150
         /\ lastStrumTime' = clock'
    ELSE lastStrumTime' = lastStrumTime

C9_Debounce == [][C9_Step]_vars

\* A fast crossing within DEBOUNCE_MS of an accepted strum was rejected.
C9_Witness ==
    /\ pc = "idle"
    /\ inZone
    /\ vel # Null
    /\ LET y == lastY[1]
           p == lastY[1] - vel[1]
       IN  /\ (p < 160 /\ y >= 160) \/ (p > 160 /\ y <= 160)
           /\ Abs(vel[1]) > 18
    /\ ~didStrum
    /\ lastStrumTime > 0
    /\ clock - lastStrumTime <= 150

\* ------------------------------------------------------------------------
\* C10 as stated.  In a frame with the hand in the zone and a previous
\* sample, a strum is emitted iff the previous and the current y are on
\* opposite sides of the midline or on it, the speed exceeds
\* VELOCITY_THRESHOLD and the debounce has elapsed; direction down iff
\* vel > 0.
\* ------------------------------------------------------------------------
C10_StatedStep ==
    (MountedTick /\ inZone' /\ lastY # Null) =>
        LET p   == lastY[1]
            y   == lastY'[1]
            mid == (loopDims.h * 80) \div 100
        IN  /\ didStrum' <=>
                  /\ (p <= mid /\ y >= mid) \/ (p >= mid /\ y <= mid)
                  /\ Abs(y - p) > 18
                  /\ clock' - lastStrumTime > 150
            /\ didStrum' => strumDir' = IF y - p > 0 THEN "down" ELSE "up"

C10_EmitIffCrossingStated == [][C10_StatedStep]_vars

\* ------------------------------------------------------------------------
\* C10 as amended.  The same, where a crossing is: the previous y strictly
\* on one side of the midline and the current y on the other side or on
\* the midline.
\* ------------------------------------------------------------------------
C10_AmendedStep ==
    (MountedTick /\ inZone' /\ lastY # Null) =>
        LET p   == lastY[1]
            y   == lastY'[1]
            mid == (loopDims.h * 80) \div 100
        IN  /\ didStrum' <=>
                  /\ (p < mid /\ y >= mid) \/ (p > mid /\ y <= mid)
                  /\ Abs(y - p) > 18
                  /\ clock' - lastStrumTime > 150
            /\ didStrum' => strumDir' = IF y - p > 0 THEN "down" ELSE "up"

C10_EmitIffCrossing == [][C10_AmendedStep]_vars

\* The previous sample was on the midline, the hand moved fast, no strum
\* was pending debounce, and none was emitted.
C10_Witness ==
    /\ pc = "idle"
    /\ inZone
    /\ lastY = Some(180)
    /\ vel = Some(20)
    /\ clock - lastStrumTime > 150
    /\ ~didStrum

\* ------------------------------------------------------------------------
\* C11.  After a frame without a position (no hand, no hand past the wrist
\* gate) or with the position outside the strum zone, lastPosition is
\* none, and the frame after such a frame emits no strum.
\* ------------------------------------------------------------------------
C11_Step ==
    /\ (MountedTick /\ ~inZone') => lastY' = Null
    /\ (MountedTick /\ ~inZone) => ~didStrum'

C11_GapClearsLastPosition == [][C11_Step]_vars

\* ------------------------------------------------------------------------
\* C12.  The distance a tick moves the Pending notes is proportional to
\* the wall-clock time since the previous tick: for any two successive
\* ticks that move notes, advance / elapsed is the same.
\* ------------------------------------------------------------------------
C12_Step ==
    (MountedTick /\ lastTick # Null /\ lastTick' # Null) =>
        LET prev == lastTick[1]
            cur  == lastTick'[1]
        IN  (prev.elapsed # Null /\ prev.advance # Null /\ cur.advance # Null)
               => cur.advance[1] * prev.elapsed[1]
                    = prev.advance[1] * cur.elapsed[1]

C12_AdvanceScalesWithElapsed == [][C12_Step]_vars

\* ------------------------------------------------------------------------
\* C13.  Every note is retired in the end.  A Hit note leaves the active
\* set in the tick that hits it; a Missed note leaves it once it is
\* RETIRE_MARGIN beyond the display width, so while it is in the set every
\* tick takes it nearer to that line: no tick leaves a Missed note in the
\* active set where it was.
\* ------------------------------------------------------------------------
C13_Step ==
    MountedTick =>
        /\ \A j \in 1..Len(notes') : ~notes'[j].hit
        /\ \A i \in 1..Len(notes) :
              notes[i].missed =>
                 \A j \in 1..Len(notes') :
                    notes'[j].id = notes[i].id => notes'[j].x > notes[i].x

C13_EveryNoteRetires == [][C13_Step]_vars

\* ------------------------------------------------------------------------
\* C14.  A tick of a started session creates a note iff now -
\* lastSpawnTime > SPAWN_INTERVAL: one Pending note at the start offset,
\* with lastSpawnTime := now; no other step creates a note or moves
\* lastSpawnTime, so successive spawn times are more than SPAWN_INTERVAL
\* apart.
\* ------------------------------------------------------------------------
C14_Step ==
    /\ IF mounted /\ pc = "idle" /\ pc' = "awaiting"
       THEN IF isAudioStarted /\ clock' - lastNoteSpawnTime > 1100
            THEN /\ Len(notes') = Len(notes) + 1
                 /\ SubSeq(notes', 1, Len(notes)) = notes
                 /\ notes'[Len(notes')].x = -100
                 /\ Unresolved(notes'[Len(notes')])
                 /\ \A i \in 1..Len(notes) :
                       notes[i].id # notes'[Len(notes')].id
                 /\ lastNoteSpawnTime' = clock'
            ELSE notes' = notes /\ lastNoteSpawnTime' = lastNoteSpawnTime
       ELSE /\ \A j \in 1..Len(notes') :
                  \E i \in 1..Len(notes) : notes[i].id = notes'[j].id
            /\ lastNoteSpawnTime' = lastNoteSpawnTime
    /\ lastNoteSpawnTime' # lastNoteSpawnTime
          => lastNoteSpawnTime' - lastNoteSpawnTime > 1100

C14_SpawnIsPaced == [][C14_Step]_vars

\* After the second spawn a tick has begun without spawning.
C14_Witness ==
    /\ pc = "awaiting"
    /\ isAudioStarted
    /\ nextNoteId = 2
    /\ clock > lastNoteSpawnTime
    /\ clock - lastNoteSpawnTime <= 1100

\* ------------------------------------------------------------------------
\* C15.  Once every handler has finished, the store is the FretState that
\* the last received fret message describes.
\* ------------------------------------------------------------------------
C15_StoreHoldsLatest ==
    (reading = << >> /\ received # Null) =>
        fretStates = OnMessageText(received[1], Untouched).fretStates

\* ------------------------------------------------------------------------
\* Vocabulary of the fret store properties
\* ------------------------------------------------------------------------
\* A step in which the onmessage call for frame text m runs to its end.
HandlerStep(m) ==
    /\ handled' = Some(m)
    /\ handled' # handled \/ Len(reading') < Len(reading)

\* The message inside the {type: "data", payload} wrapper, if any.
PayloadOf(m) ==
    IF m.k = "object" /\ "type" \in DOMAIN m /\ m.type = "data"
    THEN m.payload ELSE m

HasType(m, type) ==
    /\ PayloadOf(m).k = "object"
    /\ "type" \in DOMAIN PayloadOf(m)
    /\ PayloadOf(m).type = type

\* m is a chord_change whose fingering is a list of {string, fret} entries.
IsChordChange(m) ==
    /\ HasType(m, "chord_change")
    /\ PayloadOf(m).fingering.k = "list"
    /\ \A n \in 1..Len(PayloadOf(m).fingering.items) :
          /\ PayloadOf(m).fingering.items[n].k = "object"
          /\ "string" \in DOMAIN PayloadOf(m).fingering.items[n]

\* m is a FRET_UPDATE whose payload is a list of 6 integers.
IsFretUpdate(m) ==
    /\ HasType(m, "FRET_UPDATE")
    /\ PayloadOf(m).payload.k = "list"
    /\ Len(PayloadOf(m).payload.items) = 6

EntriesOf(m) == PayloadOf(m).fingering.items

\* The entries of a fingering that name string s.
EntriesFor(entries, s) == { n \in 1..Len(entries) : entries[n].string = s }

Last(S) == CHOOSE n \in S : \A k \in S : k <= n

\* FretState slot values
Unused == << >>
Muted == << -1 >>
Fret(n) == << n >>

\* The FretState a chord_change with these entries describes: the slot of
\* string s is 6 - s, and the last entry for a string counts.
DescribedByChord(entries) ==
    [i \in 0..5 |->
        IF EntriesFor(entries, 6 - i) = {} THEN Unused
        ELSE LET f == entries[Last(EntriesFor(entries, 6 - i))].fret
             IN  IF f = -1 THEN Muted ELSE Fret(f)]

\* The FretState a FRET_UPDATE with this payload describes.
DescribedByLegacy(items) ==
    [i \in 0..5 |-> IF items[i + 1] = -1 THEN Unused ELSE Fret(items[i + 1])]

\* The complete FretStates the frames of the model describe.
CompleteFretStates ==
    { [i \in 0..5 |-> Unused] }
      \cup { DescribedByChord(EntriesOf(f.text)) :
                f \in { g \in Frames : IsChordChange(g.text) } }
      \cup { DescribedByLegacy(PayloadOf(f.text).payload.items) :
                f \in { g \in Frames : IsFretUpdate(g.text) } }

\* ------------------------------------------------------------------------
\* C16.  A chord_change wholly replaces FretState: after its handler the
\* store has 6 slots, each one set by an entry of the message for that
\* slot's string or Unused when the message has none, whatever the store
\* held before; and the FretState a tick hands to playStrum is always one
\* complete described state, never a mix of two.
\* ------------------------------------------------------------------------
C16_Step ==
    /\ \A f \in Frames :
          (HandlerStep(f.text) /\ IsChordChange(f.text)) =>
             /\ DOMAIN fretStates' = 0..5
             /\ \A i \in 0..5 :
                   IF EntriesFor(EntriesOf(f.text), 6 - i) = {}
                   THEN fretStates'[i] = Unused
                   ELSE \E n \in EntriesFor(EntriesOf(f.text), 6 - i) :
                           fretStates'[i] = << EntriesOf(f.text)[n].fret >>
    /\ strummed' # Null => strummed'[1] \in CompleteFretStates

C16_ChordChangeReplaces == [][C16_Step]_vars

\* playStrum was given the FretState of chord G, and afterwards the handler
\* of chord D replaced it: slots 1 and 5, set by G, are Muted and Unused.
C16_Witness ==
    /\ strummed = Some(DescribedByChord(EntriesOf(ChordG)))
    /\ handled = Some(Wrapped(ChordD))
    /\ fretStates = DescribedByChord(EntriesOf(ChordD))
    /\ fretStates[1] = Muted
    /\ fretStates[5] = Unused

\* ------------------------------------------------------------------------
\* C17.  After the handler of a chord_change with fingering entries
\* {string s, fret f}, slot 6 - s is Muted when f = -1 and Fret(f) when
\* f >= 0 (the last entry for s when s is listed twice), every string
\* without an entry is Unused, and entries whose string is not in 1..6
\* change no slot.
\* ------------------------------------------------------------------------
C17_Step ==
    \A f \in Frames :
        (HandlerStep(f.text) /\ IsChordChange(f.text)) =>
            fretStates' = DescribedByChord(EntriesOf(f.text))

C17_ChordChangeSlots == [][C17_Step]_vars

\* Chord D was handled: strings 6 and 5 muted, string 3 listed twice,
\* strings 7 and 0 ignored.
C17_Witness ==
    /\ handled = Some(Wrapped(ChordD))
    /\ reading = << >>
    /\ fretStates = [i \in 0..5 |->
                        IF i \in {0, 1} THEN Muted
                        ELSE IF i = 3 THEN Fret(0) ELSE Unused]

\* ------------------------------------------------------------------------
\* C18.  After the handler of a FRET_UPDATE with a payload of 6 integers,
\* slot i is Unused when payload[i] = -1 and Fret(payload[i]) otherwise.
\* ------------------------------------------------------------------------
C18_Step ==
    \A f \in Frames :
        (HandlerStep(f.text) /\ IsFretUpdate(f.text)) =>
            /\ DOMAIN fretStates' = 0..5
            /\ \A i \in 0..5 :
                  fretStates'[i] =
                     IF PayloadOf(f.text).payload.items[i + 1] = -1
                     THEN Unused
                     ELSE Fret(PayloadOf(f.text).payload.items[i + 1])

C18_LegacySlots == [][C18_Step]_vars

\* The legacy payload [0, -1, 2, -1, 3, 1] was handled after a chord.
C18_Witness ==
    /\ handled = Some(Legacy)
    /\ currentChord = "G"
    /\ fretStates = [i \in 0..5 |->
                        IF i \in {1, 3} THEN Unused
                        ELSE IF i = 0 THEN Fret(0)
                        ELSE IF i = 2 THEN Fret(2)
                        ELSE IF i = 4 THEN Fret(3) ELSE Fret(1)]

\* ------------------------------------------------------------------------
\* C19.  A malformed or unrecognized message is dropped: its handler
\* leaves FretState, the chord label, ScoreState and the notes as they
\* were, and the tick loop where it was.
\* ------------------------------------------------------------------------
C19_Step ==
    \A m \in Malformed :
        HandlerStep(m) =>
            /\ fretStates' = fretStates
            /\ currentChord' = currentChord
            /\ UNCHANGED << score, combo, perfectCount, greatCount, missCount,
                            notes, pc, mounted >>

C19_MalformedIsDropped == [][C19_Step]_vars

\* ------------------------------------------------------------------------
\* C20.  Ending the session submits the session summary exactly once:
\* after the exit has been triggered, one summary has been emitted.
\* ------------------------------------------------------------------------
C20_SummaryOnceOnExit == ~mounted => summaries = 1

\* ------------------------------------------------------------------------
\* C21.  Once the cleanup has run and init has finished, every camera track
\* that was acquired is stopped and the socket is closed.
\* ------------------------------------------------------------------------
C21_TeardownReleases ==
    (~mounted /\ pc = "stopped" /\ camera # "none")
        => (camera = "stopped" /\ ws = "closed")

\* ------------------------------------------------------------------------
\* C22.  At most one gameLoop call is scheduled or in progress, suspended
\* calls included, and a call is scheduled only by init or by a tick that
\* has judged and retired its notes.
\* ------------------------------------------------------------------------
InProgress == IF pc = "awaiting" THEN 1 ELSE 0

C22_Step ==
    pendingFrames' > pendingFrames
        => \/ pc = "init" /\ lastTick = Null
           \/ /\ pc = "awaiting" /\ pc' = "idle"
              /\ lastTick' # lastTick
              /\ \A i \in 1..Len(notes') : Retained(notes'[i], loopDims)

C22_TicksNeverOverlap ==
    [](pendingFrames + InProgress <= 1) /\ [][C22_Step]_vars

\* A second tick is suspended at estimateHands and none is scheduled.
C22_Witness ==
    /\ mounted /\ pc = "awaiting"
    /\ lastTick # Null
    /\ pendingFrames = 0

\* ------------------------------------------------------------------------
\* C23.  An error or close event of the socket changes neither the fret
\* store nor the score nor the notes, the chain of gameLoop calls goes on,
\* and a hit after the close plays the store as the last handler that wrote
\* it left it.
\* ------------------------------------------------------------------------
CloseStep ==
    /\ mounted'
    /\ \/ ws # "closed" /\ ws' = "closed"
       \/ isConnected /\ ~isConnected'

C23_Step ==
    /\ CloseStep => UNCHANGED << fretStates, currentChord, scoreVars,
                                 noteVars, pc, pendingFrames >>
    /\ (ws = "closed" /\ reading = << >>) => fretStates' = fretStates
    /\ (MountedTick /\ ws = "closed" /\ HitsOf(judged') # << >>)
           => strummed' = Some(fretStates)

LeftmostFirst(valid, d) ==
    LET leftmost(i) == \A j \in 1..Len(valid) :
                          DisplayHandX(valid[i], d) <= DisplayHandX(valid[j], d)
        first == CHOOSE i \in 1..Len(valid) :
                    /\ leftmost(i)
                    /\ \A j \in 1..(i - 1) : ~leftmost(j)
    IN  valid[first]

C24_HandSelection ==
    handOut # Null
        => LET valid == validHands(handsIn, dims)
           IN  handOut[1] = IF valid = << >> THEN Null
                            ELSE Some(LeftmostFirst(valid, dims))

\* ------------------------------------------------------------------------
\* C25.  With a configuration whose hit line lies off the track no tick
\* runs: the component does not become ready and gameLoop never gets as far
\* as estimateHands.
\* ------------------------------------------------------------------------
\* The track is drawn from x = 0 to x = CANVAS_W; the hit line is at
\* CANVAS_W - 250 (README.md:612).
OffTrack(d) == HIT_ZONE_X(d) < 0 \/ HIT_ZONE_X(d) > d.w

C25_DegenerateRejected ==
    OffTrack(loopDims) => (~isReady /\ pc # "awaiting" /\ lastTick = Null)

\* ------------------------------------------------------------------------
\* C26.  After the mobile socket has closed and the 5 seconds have passed
\* with the screen still mounted, a new connection has been attempted.
\* ------------------------------------------------------------------------
C26_ReconnectsAfterClose ==
    (screenMounted /\ readyState = "CLOSED" /\ reconnectTimer = "fired")
        => sockets > 1

\* ------------------------------------------------------------------------
\* C27.  A note that is in the active set before and after a tick, Pending
\* or Missed, is further along the track after the tick than before.
\* ------------------------------------------------------------------------
C27_Step ==
    MountedTick =>
        \A i \in 1..Len(notes) : \A j \in 1..Len(notes') :
            notes'[j].id = notes[i].id => notes'[j].x > notes[i].x

C27_EveryNoteMoves == [][C27_Step]_vars

\* ------------------------------------------------------------------------
\* C28.  After every frame with the hand in the strum zone lastY is that
\* frame's position, whether or not a strum fired: the velocity of the
\* frame was measured from the sample of the frame before, and the sample
\* left behind is the old one plus that velocity.
\* ------------------------------------------------------------------------
C28_Step ==
    (MountedTick /\ inZone')
        => /\ lastY' # Null
           /\ lastY # Null => /\ vel' # Null
                              /\ lastY'[1] = lastY[1] + vel'[1]
           /\ lastY = Null => vel' = Null /\ ~didStrum'

C28_LastPositionFollowsHand == [][C28_Step]_vars

\* A frame that crossed the midline fast enough and was rejected by the
\* debounce has left its position behind.
C28_Witness ==
    /\ mounted /\ pc = "idle"
    /\ inZone /\ ~didStrum
    /\ vel = Some(-36)
    /\ lastY = Some(144)
    /\ clock - lastStrumTime <= DEBOUNCE_MS

\* ------------------------------------------------------------------------
\* C29.  A tick calls playStrum once for each note it hits, with the fret
\* store as it is at that moment and the direction of the strum, and
\* playMuted once for each note it marks Missed, and makes no other audio
\* call: a strum that hits nothing is silent.
\* ------------------------------------------------------------------------
CallsOf(calls, name) == SelectSeq(calls, LAMBDA c : c.call = name)

C29_Step ==
    JudgeStep =>
        /\ Len(CallsOf(audio', "playStrum")) = Len(HitsOf(judged'))
        /\ Len(CallsOf(audio', "playMuted")) = Len(MissesOf(judged'))
        /\ Len(audio') = Len(judged')
        /\ \A i \in 1..Len(audio') :
              audio'[i].call = "playStrum"
                 => audio'[i].frets = fretStates' /\ audio'[i].dir = strumDir'

C29_AudioFollowsJudging == [][C29_Step]_vars

\* An upward strum has hit a note and played chord G, which had arrived
\* while a tick was suspended and replaced the legacy update before it.
C29_Witness ==
    /\ pc = "idle"
    /\ Len(audio) = 1
    /\ audio[1].call = "playStrum"
    /\ audio[1].frets = DescribedByChord(EntriesOf(ChordG))
    /\ audio[1].dir = "up"
    /\ handled = Some(ChordG)

\* ------------------------------------------------------------------------
\* C30.  Whatever messages have arrived, the fret store has exactly the 6
\* slots 0..5 and each slot is Unused, Muted or Fret(n) with n >= 0.
\* ------------------------------------------------------------------------
ValidSlot(v) == v = Unused \/ v = Muted \/ (Len(v) = 1 /\ v[1] >= 0)

C30_SixValidSlots ==
    /\ DOMAIN fretStates = 0..5
    /\ \A i \in DOMAIN fretStates : ValidSlot(fretStates[i])

\* ------------------------------------------------------------------------
\* C31.  After the player has handled a chord message of the mobile client,
\* its chord label is the name sent and its fret store describes the frets
\* sent: null as Unused, -1 as Muted, n as Fret(n), slot by slot in the
\* order sent or in the reverse order.
\* ------------------------------------------------------------------------
SlotOf(v) == IF v = Null THEN Unused ELSE IF v = Open THEN Muted ELSE Fret(v[1])

DescribesSent(store, frets) ==
    /\ DOMAIN store = 0..5
    /\ \/ \A i \in 0..5 : store[i] = SlotOf(frets[i + 1])
       \/ \A i \in 0..5 : store[i] = SlotOf(frets[6 - i])

C31_Step ==
    relayed' = relayed + 1
        => /\ currentChord' = sent[relayed'].chord
           /\ DescribesSent(fretStates', sent[relayed'].frets)

C31_SenderReceiverAgree == [][C31_Step]_vars

\* ------------------------------------------------------------------------
\* C32.  On the mobile client the selected chord and the local fret state
\* are those of the last chord_change sent, and the initial ones while
\* nothing has been sent.
\* ------------------------------------------------------------------------
C32_SelectionMatchesSent ==
    IF sent = << >>
    THEN /\ selectedChord = "C (osanai)"
         /\ mobileFretStates = CHORDS["C (osanai)"]
    ELSE /\ selectedChord = sent[Len(sent)].chord
         /\ mobileFretStates = sent[Len(sent)].frets

\* ------------------------------------------------------------------------
\* C33.  As stated: for every message m, the handler leaves the store and
\* the chord label the same after {type: "data", payload: m} as after m,
\* from the same store.
\* ------------------------------------------------------------------------
C33_WrappingTransparentStated ==
    wrapOut # Null => wrapOut[1].wrapped = wrapOut[1].direct

\* C33, amended.  The same for every message m that is not itself an
\* envelope of type "data": the handler opens one envelope, not two.
C33_WrappingTransparent ==
    (wrapOut # Null /\ TypeOf(innerIn[1].m) # "data")
        => wrapOut[1].wrapped = wrapOut[1].direct

\* Chord G, bare and wrapped, has replaced the store of the legacy update
\* and the label D.
C33_Witness ==
    /\ wrapOut # Null
    /\ innerIn[1].m = ChordG
    /\ innerIn[1].st.currentChord = "D"
    /\ wrapOut[1].wrapped = wrapOut[1].direct
    /\ wrapOut[1].wrapped.currentChord = "G"
    /\ wrapOut[1].wrapped.fretStates = DescribedByChord(EntriesOf(ChordG))
    /\ wrapOut[1].wrapped.fretStates # innerIn[1].st.fretStates

\* ------------------------------------------------------------------------
\* C34.  score is 1000 for each Perfect counted plus 500 for each Great
\* counted, in every state, and no step lowers perfectCount, greatCount or
\* missCount.
\* ------------------------------------------------------------------------
C34_ScoreMatchesCounters ==
    /\ [](score = 1000 * perfectCount + 500 * greatCount)
    /\ [][/\ perfectCount' >= perfectCount
           /\ greatCount' >= greatCount
           /\ missCount' >= missCount]_vars

\* A Perfect and a Great have been scored.
C34_Witness ==
    /\ perfectCount = 1
    /\ greatCount = 1
    /\ score = 1500

\* ------------------------------------------------------------------------
\* C35.  Between ticks the notes spawned so far (nextNoteId) are those
\* counted as Perfect, Great or Missed plus the Pending notes of the active
\* set; a Pending note leaves the active set only by a resolution of the
\* tick; the ids of the active set are pairwise distinct.
\* ------------------------------------------------------------------------
C35_Step ==
    \A i \in 1..Len(notes) :
        Unresolved(notes[i])
           => \/ \E j \in 1..Len(notes') : notes'[j].id = notes[i].id
              \/ /\ JudgeStep
                 /\ \E k \in 1..Len(judged') : judged'[k].id = notes[i].id

C35_NotesAreConserved ==
    /\ [](pc # "awaiting"
             => nextNoteId = perfectCount + greatCount + missCount
                               + Len(SelectSeq(notes, Unresolved)))
    /\ [](\A i, j \in 1..Len(notes) : notes[i].id = notes[j].id => i = j)
    /\ [][C35_Step]_vars

\* Between two ticks: one note was hit, one was missed and is still in the
\* active set.
C35_Witness ==
    /\ pc = "idle"
    /\ nextNoteId = 2
    /\ perfectCount + greatCount = 1
    /\ missCount = 1
    /\ Len(notes) = 1

\* ------------------------------------------------------------------------
\* C36.  While the ticks go on in a window of fixed size, every Pending
\* note is Hit or Missed in the end: no note stays Pending for ever.
\* ------------------------------------------------------------------------
NoteIds == 0..1
PendingId(id) ==
    \E i \in 1..Len(notes) : notes[i].id = id /\ Unresolved(notes[i])

C36_EveryNoteResolves ==
    \A id \in NoteIds : PendingId(id) ~> ~PendingId(id)

\* The ticks after the clock of the model has stopped have taken a note
\* past the hit window.
C36_Witness ==
    /\ ClockStopped
    /\ nextNoteId = 1
    /\ missCount = 1
    /\ Len(notes) = 1 /\ notes[1].missed


\* ---------------------------------------------------------------------------
\* C37: before the session is started (GIG START) no note is spawned: whatever
\* ticks and strums happen before the start, the active set is empty, no note
\* id has been given out, and score, combo and the three counters are 0.
\* ---------------------------------------------------------------------------
C37_NothingBeforeStart ==
    ~isAudioStarted =>
        /\ notes = << >>
        /\ nextNoteId = 0
        /\ score = 0
        /\ combo = 0
        /\ perfectCount = 0
        /\ greatCount = 0
        /\ missCount = 0

\* a strum has been detected in a tick that ran before the start, later than
\* the first spawn would have been due
C37_Witness ==
    /\ ~isAudioStarted
    /\ didStrum
    /\ pc = "idle"
    /\ SpawnDue(clock)
    /\ notes = << >>


\* ------------------------------------------------------------------------
\* App and Lobby (App.tsx, components/Lobby.tsx): AppSpec
\* ------------------------------------------------------------------------

\* Longest room text in the address of the page.
MaxRoomLen == 5
\* Calls of onSelect and alerts followed in one run.
MaxSelects == 3
MaxAlerts == 2

\* Addresses the page can be opened at: the room parameter, the r parameter
\* (each absent or a text) and the hash ('' or '#' and a text).
Locations ==
    LET Repeat(ch, n) == [i \in 1..n |-> ch]
    IN
    { [room |-> rm, r |-> rr, hash |-> h] :
        rm \in {Null} \cup { Some(Repeat("a", n)) : n \in 0..MaxRoomLen },
        rr \in {Null} \cup { Some(Repeat("b", n)) : n \in 0..MaxRoomLen },
        h  \in {<< >>} \cup { << "#" >> \o Repeat("c", n) : n \in 0..MaxRoomLen } }

ToUpperCase(s) ==
    LET UpperChar(c) ==
            CASE c = "a" -> "A"
              [] c = "b" -> "B"
              [] c = "c" -> "C"
              [] OTHER -> c
    IN  [i \in 1..Len(s) |-> UpperChar(s[i])]

\* (roomParam || hash || 'TEST').toUpperCase().substring(0, 4)
DefaultRoom(loc) ==
    LET \* a || b on string-or-null operands: null and '' are falsy
        OrElse(a, b) == IF a # Null /\ Val(a) # << >> THEN a ELSE b
        \* s.replace(ch, ''): the first occurrence only
        ReplaceFirst(s, ch) ==
            IF \E i \in 1..Len(s) : s[i] = ch
            THEN LET i == CHOOSE k \in 1..Len(s) :
                              s[k] = ch /\ \A j \in 1..(k - 1) : s[j] # ch
                 IN  SubSeq(s, 1, i - 1) \o SubSeq(s, i + 1, Len(s))
            ELSE s
        \* s.substring(0, n)
        Substring0(s, n) == SubSeq(s, 1, IF Len(s) < n THEN Len(s) ELSE n)
        roomParam == OrElse(loc.room, loc.r)
        hash      == ReplaceFirst(loc.hash, "#")
        chosen    == Val(OrElse(OrElse(roomParam, Some(hash)),
                                Some(<< "T", "E", "S", "T" >>)))
    IN  Substring0(ToUpperCase(chosen), 4)

\* Lobby: (initialRoomId || 'TEST').toUpperCase()
DisplayRoomId(initialRoomId) ==
    ToUpperCase(IF initialRoomId # << >> THEN initialRoomId
                ELSE << "T", "E", "S", "T" >>)

\* The page is opened at some address and App renders for the first time.
OpenLocation ==
    /\ appPc = "closed"
    /\ location' \in Locations
    /\ appPc' = "rendered"
    /\ UNCHANGED << role, roomId, selections, alerts, playerVars, mobileVars >>

\* useEffect(..., []) of App
AppEffect ==
    /\ appPc = "rendered"
    /\ roomId' = DefaultRoom(location)
    /\ appPc' = "ready"
    /\ UNCHANGED << role, location, selections, alerts, playerVars,
                    mobileVars >>

StartPCMode(id) ==
    /\ role' = "PC_PLAYER"
    /\ roomId' = id

\* Mutant: every selection starts the PC mode.
HandleRoleSelect_AnyRole(selectedRole, id) == StartPCMode(id)

HandleRoleSelect(selectedRole, id) ==
    IF selectedRole = "PC_PLAYER"
    THEN StartPCMode(id)
    ELSE UNCHANGED << role, roomId >>

\* Lobby: PC MODE button
HandlePCSession ==
    /\ appPc = "ready" /\ role = "LOBBY"
    /\ Len(selections) < MaxSelects
    /\ LET id == DisplayRoomId(roomId)
       IN  /\ selections' = Append(selections,
                                   [role |-> "PC_PLAYER", id |-> id])
           /\ HandleRoleSelect("PC_PLAYER", id)
    /\ UNCHANGED << location, appPc, alerts, playerVars, mobileVars >>

\* Lobby: handleMobileSession (the Lobby renders no element bound to it)
HandleMobileSession ==
    /\ appPc = "ready" /\ role = "LOBBY"
    /\ LET id == DisplayRoomId(roomId)
       IN  IF Len(id) = 4
           THEN /\ Len(selections) < MaxSelects
                /\ selections' = Append(selections,
                                        [role |-> "MOBILE_CONTROLLER",
                                         id |-> id])
                /\ HandleRoleSelect("MOBILE_CONTROLLER", id)
                /\ UNCHANGED alerts
           ELSE /\ alerts < MaxAlerts
                /\ alerts' = alerts + 1
                /\ UNCHANGED << role, roomId, selections >>
    /\ UNCHANGED << location, appPc, playerVars, mobileVars >>

\* App: handleExit, the onExit of the player
AppHandleExit ==
    /\ appPc = "ready" /\ role = "PC_PLAYER"
    /\ role' = "LOBBY"
    /\ UNCHANGED << roomId, location, appPc, selections, alerts, playerVars,
                    mobileVars >>

AppNext ==
    \/ OpenLocation
    \/ AppEffect
    \/ HandlePCSession
    \/ HandleMobileSession
    \/ AppHandleExit

AppSpec == Init /\ [][AppNext]_vars

\* ---------------------------------------------------------------------------
\* C38: the role is LOBBY at first; it becomes PC_PLAYER only in a step that
\* selects the PC_PLAYER role, and that step sets roomId to the selected id;
\* the role leaves PC_PLAYER only for LOBBY (exit), roomId kept; a step that
\* selects any other role changes neither role nor roomId.
\* ---------------------------------------------------------------------------
SelectStep == Len(selections') = Len(selections) + 1
Selected == selections'[Len(selections')]

C38_Step ==
    /\ role \in {"LOBBY", "PC_PLAYER"}
    /\ (role' = "PC_PLAYER" /\ role # "PC_PLAYER") =>
           SelectStep /\ Selected.role = "PC_PLAYER"
    /\ (SelectStep /\ Selected.role = "PC_PLAYER") =>
           role' = "PC_PLAYER" /\ roomId' = Selected.id
    /\ (SelectStep /\ Selected.role # "PC_PLAYER") =>
           role' = role /\ roomId' = roomId
    /\ (role = "PC_PLAYER" /\ role' # role) =>
           role' = "LOBBY" /\ roomId' = roomId /\ selections' = selections

C38_RoleFollowsSelection == (role = "LOBBY") /\ [][C38_Step]_vars

\* the PC role was selected and left again, then another role was selected
C38_Witness ==
    /\ Len(selections) = 2
    /\ selections[1].role = "PC_PLAYER"
    /\ selections[2].role = "MOBILE_CONTROLLER"
    /\ role = "LOBBY"
    /\ roomId = selections[1].id
    /\ Len(roomId) = 4
    /\ location.room # Null
    /\ Len(Val(location.room)) = MaxRoomLen

=============================================================================
